---- MODULE Spec2Model ----
(***************************************************************************)
(* A model of ppersist (src/src/ppersist/ppersist.py): the type classifier *)
(* cansave, the encoder savedict / save, the allow-list gated decoder      *)
(* (SafeLoader, UnsafeLoader, _load), the record projection _maketuple and *)
(* the accumulating Saver.                                                 *)
(*                                                                         *)
(* A Python value is a record [m, k, p, a]: the module and name of its     *)
(* type, a payload (a sequence of strings: the characters of a str, the    *)
(* dtype of an array, the state of an object) and its children in          *)
(* iteration order (a dict holds key, value, key, value, ...).             *)
(* A pickle is a sequence of opcodes; pickle.dump and pickle.Unpickler are  *)
(* modelled as the stack machine they are, at the grain find_class sees.   *)
(***************************************************************************)
EXTENDS Integers, Sequences, FiniteSets, TLC

VARIABLES file, opened, dct, has_dct, last, got, nwrites, log, subject

vars == <<file, opened, dct, has_dct, last, got, nwrites, log, subject>>

(***************************************************************************)
(* Bounds of the model.                                                    *)
(***************************************************************************)
\* children of a generated container at the outermost generated level
MaxItems == 2
\* nesting depth of the generated values
MaxDepth == 2
\* entries of a generated bundle (dict passed to savedict)
MaxKeys == 2
\* arguments of one generated call of save / Saver.save
MaxArgs == 2

(***************************************************************************)
(* Values.                                                                 *)
(***************************************************************************)
V(m, k, p, a) == [m |-> m, k |-> k, p |-> p, a |-> a]

PyNone == V("builtins", "NoneType", <<>>, <<>>)
PyInt(c) == V("builtins", "int", <<c>>, <<>>)
PyFloat(c) == V("builtins", "float", <<c>>, <<>>)
PyBool(c) == V("builtins", "bool", <<c>>, <<>>)
PyComplex(c) == V("builtins", "complex", <<c>>, <<>>)
PyStr(chars) == V("builtins", "str", chars, <<>>)
PyList(items) == V("builtins", "list", <<>>, items)
PyTuple(items) == V("builtins", "tuple", <<>>, items)
PySet(items) == V("builtins", "set", <<>>, items)
PyFrozenSet(items) == V("builtins", "frozenset", <<>>, items)
PyDict(items) == V("builtins", "dict", <<>>, items)
\* a class object, as pickle's GLOBAL pushes it
Class(tag) == V("builtins", "type", tag, <<>>)
\* numpy scalar of type np.<t>
NpScalar(t, c) == V("numpy", t, <<t, c>>, <<>>)
\* numpy array with the given dtype; object arrays hold their elements
NdArray(dtype, cells) == V("numpy", "ndarray", <<dtype>>, cells)
\* pandas Series: its dtype and its cells
Series(dtype, cells) == V("pandas.core.series", "Series", <<dtype>>, cells)
\* pandas DataFrame: children are label, column, label, column, ...
\* (each column an array)
DataFrame(cols) == V("pandas.core.frame", "DataFrame", <<>>, cols)
\* an instance of the tests' class Evil
Evil == V("test_ppersist", "Evil", <<"1">>, <<>>)

Nil == V("", "", <<>>, <<>>)
Mark == V("", "MARK", <<>>, <<>>)

TypeOf(v) == <<v.m, v.k>>

(***************************************************************************)
(* Type Classifier.                                                        *)
(***************************************************************************)
\* the types cansave compares type(v) with at lines 59-62
ScalarTypes ==
    { <<"builtins", "int">>, <<"numpy", "int32">>, <<"numpy", "int64">>,
      <<"builtins", "float">>, <<"numpy", "float64">>, <<"numpy", "float32">>,
      <<"builtins", "complex">>, <<"numpy", "complex128">>,
      <<"numpy", "complex64">>, <<"numpy", "bool_">>, <<"numpy", "intc">>,
      <<"builtins", "bool">> }

Odd(s) == [i \in 1..((Len(s) + 1) \div 2) |-> s[2 * i - 1]]
Even(s) == [i \in 1..(Len(s) \div 2) |-> s[2 * i]]
Range(s) == {s[i] : i \in DOMAIN s}

\* what "for v1 in v" yields: the values of a dict are taken by .items();
\* a Series yields its cells, a DataFrame yields its column labels
Iterate(v) ==
    CASE TypeOf(v) = <<"builtins", "dict">> -> Even(v.a)
      [] TypeOf(v) = <<"pandas.core.frame", "DataFrame">> -> Odd(v.a)
      [] OTHER -> v.a

RECURSIVE cansave(_)
cansave(v) ==
    LET t == TypeOf(v) IN
    IF v = PyNone THEN TRUE
    ELSE IF t = <<"numpy", "ndarray">> /\ v.p[1] # "object" THEN TRUE
    ELSE IF t = <<"builtins", "str">> THEN TRUE
    ELSE IF t \in ScalarTypes THEN TRUE
    ELSE IF t = <<"builtins", "dict">>
        THEN \A v1 \in Range(Iterate(v)) : cansave(v1)
    ELSE IF t \in { <<"builtins", "list">>, <<"builtins", "tuple">>,
                    <<"builtins", "set">> }
        THEN \A v1 \in Range(Iterate(v)) : cansave(v1)
    ELSE IF t \in { <<"pandas.core.frame", "DataFrame">>,
                    <<"pandas.core.series", "Series">> }
        THEN \A v1 \in Range(Iterate(v)) : cansave(v1)
    ELSE FALSE

(***************************************************************************)
(* Allow-List Registry.                                                    *)
(***************************************************************************)
\* the registry with the entry for numpy.dtype left out
allowed_without_dtype ==
    { <<"builtins", "complex">>, <<"builtins", "set">>, <<"builtins", "frozenset">>,
      <<"builtins", "range">>, <<"builtins", "slice">>, <<"functools", "partial">>,
      <<"numpy", "ndarray">>, <<"numpy.core.multiarray", "scalar">>,
      <<"numpy.core.numeric", "_frombuffer">>,
      <<"numpy.core.multiarray", "_reconstruct">>,
      <<"pandas.core.frame", "DataFrame">>, <<"pandas.core.series", "Series">>,
      <<"pandas.core.indexes.base", "Index">>,
      <<"pandas.core.indexes.range", "RangeIndex">>,
      <<"pandas.core.indexes.base", "_new_Index">>,
      <<"pandas.core.internals.managers", "SingleBlockManager">>,
      <<"pandas.core.internals.managers", "BlockManager">>,
      <<"pandas.core.internals.blocks", "new_block">>,
      <<"pandas._libs.internals", "_unpickle_block">> }

allowed ==
    { <<"builtins", "complex">>,
      <<"builtins", "set">>,
      <<"builtins", "frozenset">>,
      <<"builtins", "range">>,
      <<"builtins", "slice">>,
      <<"functools", "partial">>,
      <<"numpy", "ndarray">>,
      <<"numpy", "dtype">>,
      <<"numpy.core.multiarray", "scalar">>,
      <<"numpy.core.numeric", "_frombuffer">>,
      <<"numpy.core.multiarray", "_reconstruct">>,
      <<"pandas.core.frame", "DataFrame">>,
      <<"pandas.core.series", "Series">>,
      <<"pandas.core.indexes.base", "Index">>,
      <<"pandas.core.indexes.range", "RangeIndex">>,
      <<"pandas.core.indexes.base", "_new_Index">>,
      <<"pandas.core.internals.managers", "SingleBlockManager">>,
      <<"pandas.core.internals.managers", "BlockManager">>,
      <<"pandas.core.internals.blocks", "new_block">>,
      <<"pandas._libs.internals", "_unpickle_block">> }

(***************************************************************************)
(* pickle.dump(dct, fd, pickle.HIGHEST_PROTOCOL): the opcodes written.     *)
(***************************************************************************)
NoTag == <<"", "">>
Op(op, n, v, tag) == [op |-> op, n |-> n, v |-> v, tag |-> tag]
ATOM(v) == Op("ATOM", 0, v, NoTag)
GLOBAL(tag) == Op("GLOBAL", 0, Nil, tag)
FRAME(n) == Op("FRAME", n, Nil, NoTag)
Plain(op) == Op(op, 0, Nil, NoTag)

\* types pickle writes with an opcode of their own, no tag
AtomTypes ==
    { <<"builtins", "NoneType">>, <<"builtins", "bool">>, <<"builtins", "int">>,
      <<"builtins", "float">>, <<"builtins", "str">> }

\* the opcode closing each built-in container (protocol 4 and later)
ContainerOp(t) ==
    CASE t = <<"builtins", "list">> -> "LIST"
      [] t = <<"builtins", "tuple">> -> "TUPLE"
      [] t = <<"builtins", "set">> -> "SET"
      [] t = <<"builtins", "frozenset">> -> "FROZENSET"
      [] t = <<"builtins", "dict">> -> "DICT"
      [] OTHER -> ""

\* tags of a numpy array's reconstruction: buffers of plain dtypes go through
\* _frombuffer, object arrays through _reconstruct
ArrayTags(dtype) ==
    IF dtype = "object"
    THEN << <<"numpy.core.multiarray", "_reconstruct">>, <<"numpy", "ndarray">>,
            <<"numpy", "dtype">> >>
    ELSE << <<"numpy.core.numeric", "_frombuffer">>, <<"numpy", "dtype">> >>

\* The tags pickle writes to rebuild one object, the callable first, then the
\* classes and helpers its arguments name (numpy 1.x and pandas 2.x, whose
\* module paths the allow-list spells). Any other object is rebuilt from its
\* own class.
ReduceTags(v) ==
    LET t == TypeOf(v) IN
    CASE t = <<"builtins", "complex">> -> << <<"builtins", "complex">> >>
      [] t = <<"numpy", "ndarray">> -> ArrayTags(v.p[1])
      [] t[1] = "numpy" /\ t # <<"numpy", "ndarray">> ->
            << <<"numpy.core.multiarray", "scalar">>, <<"numpy", "dtype">> >>
      [] t = <<"pandas.core.series", "Series">> ->
            << <<"pandas.core.series", "Series">>,
               <<"pandas.core.internals.managers", "SingleBlockManager">>,
               <<"pandas._libs.internals", "_unpickle_block">>,
               <<"builtins", "slice">>,
               <<"pandas.core.indexes.base", "_new_Index">>,
               <<"pandas.core.indexes.range", "RangeIndex">> >>
            \o ArrayTags(v.p[1])
      [] t = <<"pandas.core.frame", "DataFrame">> ->
            << <<"pandas.core.frame", "DataFrame">>,
               <<"pandas.core.internals.managers", "BlockManager">>,
               <<"pandas._libs.internals", "_unpickle_block">>,
               <<"builtins", "slice">>,
               <<"pandas.core.indexes.base", "_new_Index">>,
               <<"pandas.core.indexes.base", "Index">>,
               <<"pandas.core.indexes.range", "RangeIndex">> >>
      [] OTHER -> << t >>

RECURSIVE enc(_)
enc(v) ==
    LET t == TypeOf(v)
        RECURSIVE encAll(_)
        encAll(s) == IF s = <<>> THEN <<>> ELSE enc(Head(s)) \o encAll(Tail(s))
        tags == ReduceTags(v)
    IN  IF t \in AtomTypes THEN << ATOM(v) >>
        ELSE IF t = <<"builtins", "type">> THEN << GLOBAL(v.p) >>
        ELSE IF ContainerOp(t) # ""
            THEN << Plain("MARK") >> \o encAll(v.a) \o << Plain(ContainerOp(t)) >>
        ELSE << GLOBAL(tags[1]), Plain("MARK") >>
             \o [i \in 1..(Len(tags) - 1) |-> GLOBAL(tags[i + 1])]
             \o << ATOM(PyStr(v.p)) >>
             \o encAll(v.a)
             \o << Plain("TUPLE"), Plain("REDUCE") >>

\* the whole pickle: one frame holding the object and STOP
dump(v) == LET body == enc(v) IN << FRAME(Len(body) + 1) >> \o body \o << Plain("STOP") >>

(***************************************************************************)
(* pickle.Unpickler.load with find_class overridden.                       *)
(***************************************************************************)
Ok(v, inst) ==
    [status |-> "ok", err |-> "", why |-> "", tag |-> NoTag, val |-> v, inst |-> inst]
Raise(err, why, tag, inst) ==
    [status |-> "raise", err |-> err, why |-> why, tag |-> tag, val |-> Nil,
     inst |-> inst]

\* a gate that compares the module alone
SafeLoader_find_class_by_module(tag) == tag[1] \in { a[1] : a \in allowed }

\* SafeLoader.find_class: TRUE when the class is looked up, FALSE when
\* UnpicklingError is raised
SafeLoader_find_class(tag) == tag \in allowed

\* UnsafeLoader.find_class: prints a caution and looks every class up
UnsafeLoader_find_class(tag) == TRUE

find_class(trusted, tag) ==
    IF trusted THEN UnsafeLoader_find_class(tag) ELSE SafeLoader_find_class(tag)

\* index of the topmost MARK of the stack, 0 when there is none
TopMark(stack) ==
    LET marks == {i \in DOMAIN stack : stack[i] = Mark}
    IN  IF marks = {} THEN 0 ELSE CHOOSE i \in marks : \A j \in marks : j <= i

ContainerType(op) ==
    CASE op = "LIST" -> "list"
      [] op = "TUPLE" -> "tuple"
      [] op = "SET" -> "set"
      [] op = "FROZENSET" -> "frozenset"
      [] op = "DICT" -> "dict"
      [] OTHER -> ""

IsClass(v) == TypeOf(v) = <<"builtins", "type">>

\* the leading class objects of an argument tuple
RECURSIVE DropClasses(_)
DropClasses(s) ==
    IF s # <<>> /\ IsClass(Head(s)) THEN DropClasses(Tail(s)) ELSE s

\* the type the callable named tag builds
TypeBuilt(tag, args) ==
    CASE tag \in { <<"numpy.core.multiarray", "_reconstruct">>,
                   <<"numpy.core.numeric", "_frombuffer">> } -> <<"numpy", "ndarray">>
      [] tag = <<"numpy.core.multiarray", "scalar">> -> <<"numpy", args[1].p[1]>>
      [] OTHER -> tag

\* REDUCE: call the class or function on the argument tuple
Apply(callable, argtuple) ==
    LET args == DropClasses(argtuple.a)
        t == TypeBuilt(callable.p, args)
    IN  V(t[1], t[2], args[1].p, Tail(args))

RECURSIVE run(_, _, _, _, _)
run(ops, i, stack, inst, trusted) ==
    IF i > Len(ops) THEN Raise("EOFError", "Ran out of input", NoTag, inst)
    ELSE
    LET o == ops[i]
        n == Len(stack)
        mk == TopMark(stack)
    IN  CASE o.op = "FRAME" ->
                IF Len(ops) - i < o.n
                THEN Raise("UnpicklingError", "pickle data was truncated", NoTag, inst)
                ELSE run(ops, i + 1, stack, inst, trusted)
          [] o.op = "ATOM" -> run(ops, i + 1, Append(stack, o.v), inst, trusted)
          [] o.op = "MARK" -> run(ops, i + 1, Append(stack, Mark), inst, trusted)
          [] o.op = "GLOBAL" ->
                IF find_class(trusted, o.tag)
                THEN run(ops, i + 1, Append(stack, Class(o.tag)),
                         Append(inst, o.tag), trusted)
                ELSE Raise("UnpicklingError", "Not allowed", o.tag, inst)
          [] ContainerType(o.op) # "" ->
                IF mk = 0
                THEN Raise("UnpicklingError", "could not find MARK", NoTag, inst)
                ELSE run(ops, i + 1,
                         Append(SubSeq(stack, 1, mk - 1),
                                V("builtins", ContainerType(o.op), <<>>,
                                  SubSeq(stack, mk + 1, n))),
                         inst, trusted)
          [] o.op = "REDUCE" ->
                IF n < 2
                THEN Raise("UnpicklingError", "unpickling stack underflow", NoTag, inst)
                ELSE IF TypeOf(stack[n]) # <<"builtins", "tuple">>
                        \/ ~IsClass(stack[n - 1])
                        \/ DropClasses(stack[n].a) = <<>>
                THEN Raise("TypeError", "bad call", NoTag, inst)
                ELSE run(ops, i + 1,
                         Append(SubSeq(stack, 1, n - 2), Apply(stack[n - 1], stack[n])),
                         inst, trusted)
          [] o.op = "STOP" ->
                IF n = 0
                THEN Raise("UnpicklingError", "unpickling stack underflow", NoTag, inst)
                ELSE Ok(stack[n], inst)
          [] OTHER -> Raise("UnpicklingError", "invalid load key", NoTag, inst)

\* Unpickler(fd).load() on the bytes of fd
Unpickle(ops, trusted) ==
    IF ops = <<>> THEN Raise("EOFError", "Ran out of input", NoTag, <<>>)
    ELSE run(ops, 1, <<>>, <<>>, trusted)

(***************************************************************************)
(* Names: a name is the sequence of its characters.                        *)
(***************************************************************************)
Letters ==
    { "a", "b", "c", "d", "e", "f", "g", "h", "i", "j", "k", "l", "m", "n", "o",
      "p", "q", "r", "s", "t", "u", "v", "w", "x", "y", "z",
      "A", "B", "C", "D", "E", "F", "G", "H", "I", "J", "K", "L", "M", "N", "O",
      "P", "Q", "R", "S", "T", "U", "V", "W", "X", "Y", "Z" }
Digits == { "0", "1", "2", "3", "4", "5", "6", "7", "8", "9" }

\* re.match of '^<first><rest>*$': $ also matches before one trailing newline
ReMatch(s, first, rest) ==
    LET body == IF s # <<>> /\ s[Len(s)] = "\n" THEN SubSeq(s, 1, Len(s) - 1) ELSE s
    IN  /\ body # <<>>
        /\ body[1] \in first
        /\ \A i \in 2..Len(body) : body[i] \in rest

\* nre of save and Saver.save: '^[a-zA-Z][a-zA-Z0-9_]*$'
nre_save(s) == ReMatch(s, Letters, Letters \cup Digits \cup {"_"})
\* nre of savedict: '^[a-zA-Z_][a-zA-Z0-9_]*$'
nre_savedict(s) == ReMatch(s, Letters \cup {"_"}, Letters \cup Digits \cup {"_"})

Whitespace == { " ", "\n", "\t" }
\* str.strip()
RECURSIVE strip(_)
strip(s) ==
    IF s = <<>> THEN s
    ELSE IF s[1] \in Whitespace THEN strip(Tail(s))
    ELSE IF s[Len(s)] \in Whitespace THEN strip(SubSeq(s, 1, Len(s) - 1))
    ELSE s

\* str.isidentifier() on the ASCII characters of the model
isidentifier(s) ==
    /\ s # <<>>
    /\ s[1] \in Letters \cup {"_"}
    /\ \A i \in 2..Len(s) : s[i] \in Letters \cup Digits \cup {"_"}

\* keyword.iskeyword, on the keywords of two characters
iskeyword(s) ==
    s \in { <<"a", "s">>, <<"i", "f">>, <<"i", "n">>, <<"i", "s">>, <<"o", "r">> }

NAMES == <<"_", "_", "n", "a", "m", "e", "s", "_", "_">>

(***************************************************************************)
(* dict operations, on the key, value, key, value, ... children of a dict. *)
(***************************************************************************)
Keys(d) == Odd(d.a)
Values(d) == Even(d.a)
HasKey(d, key) == \E i \in DOMAIN Keys(d) : Keys(d)[i] = key
IndexOfKey(d, key) == CHOOSE i \in DOMAIN Keys(d) : Keys(d)[i] = key
DictGet(d, key) == Values(d)[IndexOfKey(d, key)]
\* an assignment that always adds an entry
DictSet_append(d, key, val) == [d EXCEPT !.a = d.a \o <<key, val>>]

\* d[key] = val: an existing key keeps its position
DictSet(d, key, val) ==
    IF HasKey(d, key)
    THEN [d EXCEPT !.a[2 * IndexOfKey(d, key)] = val]
    ELSE [d EXCEPT !.a = d.a \o <<key, val>>]
\* del d[key]
DictDel(d, key) ==
    LET i == IndexOfKey(d, key)
    IN  [d EXCEPT !.a = SubSeq(d.a, 1, 2 * i - 2) \o SubSeq(d.a, 2 * i + 1, Len(d.a))]

(***************************************************************************)
(* The outcome of a call, and the file.                                    *)
(***************************************************************************)
NoFile == [exists |-> FALSE, data |-> <<>>, src |-> Nil, by |-> ""]

\* what a call returned or raised: ret is a returned dict, names and vals
\* the fields of a returned record (for mload, the variables injected)
Outcome(op, trusted, argbad, r, ret, names, vals) ==
    [op |-> op, trusted |-> trusted, argbad |-> argbad, status |-> r.status,
     err |-> r.err, why |-> r.why, tag |-> r.tag, inst |-> r.inst,
     ret |-> ret, names |-> names, vals |-> vals]

Returned == Ok(Nil, <<>>)
Raised(err, why) == Raise(err, why, NoTag, <<>>)

NoCall == Outcome("", "n/a", FALSE, Returned, Nil, <<>>, <<>>)
NoGot ==
    [key |-> [isstr |-> FALSE, name |-> <<>>, idx |-> 0], status |-> "", err |-> "",
     val |-> Nil]

(***************************************************************************)
(* Encoder: savedict, save, savedict_ignorewhitelist.                      *)
(***************************************************************************)
\* a validation that looks at the first item only
savedict_check_first(items) ==
    IF items = <<>> THEN Returned
    ELSE IF ~nre_savedict(items[1].p) THEN Raised("ValueError", "Bad variable name")
    ELSE IF ~cansave(items[2]) THEN Raised("ValueError", "Cannot save variable")
    ELSE Returned

\* the validation loop of savedict over dct.items(): the first failure
RECURSIVE savedict_check(_)
savedict_check(items) ==
    IF items = <<>> THEN Returned
    ELSE IF ~nre_savedict(items[1].p) THEN Raised("ValueError", "Bad variable name")
    ELSE IF ~cansave(items[2]) THEN Raised("ValueError", "Cannot save variable")
    ELSE savedict_check(SubSeq(items, 3, Len(items)))

\* with open(filename, 'wb') as fd: pickle.dump(dct, fd, HIGHEST_PROTOCOL)
write(d, by) == [exists |-> TRUE, data |-> dump(d), src |-> d, by |-> by]

\* some key fails the identifier pattern of savedict or some value fails cansave
BadBundle(d) ==
    \/ \E i \in DOMAIN Keys(d) : ~nre_savedict(Keys(d)[i].p)
    \/ \E i \in DOMAIN Values(d) : ~cansave(Values(d)[i])

\* the file after savedict(filename, d)
savedict_file(f, d) ==
    IF savedict_check(d.a).status = "ok" THEN write(d, "savedict") ELSE f

savedict(d) ==
    /\ file' = savedict_file(file, d)
    /\ last' = Outcome("savedict", "n/a", BadBundle(d), savedict_check(d.a),
                       Nil, <<>>, <<>>)
    /\ got' = NoGot
    /\ UNCHANGED <<opened, dct, has_dct, nwrites, log, subject>>

savedict_ignorewhitelist(d) ==
    /\ file' = write(d, "savedict_ignorewhitelist")
    /\ last' = Outcome("savedict_ignorewhitelist", "n/a", BadBundle(d), Returned,
                       Nil, <<>>, <<>>)
    /\ got' = NoGot
    /\ UNCHANGED <<opened, dct, has_dct, nwrites, log, subject>>

\* the validation loop of save and Saver.save over range(N)
RECURSIVE save_check(_, _)
save_check(names, args) ==
    IF names = <<>> THEN Returned
    ELSE IF ~nre_save(Head(names)) THEN Raised("ValueError", "Bad variable name")
    ELSE IF ~cansave(Head(args)) THEN Raised("ValueError", "Cannot save variable")
    ELSE save_check(Tail(names), Tail(args))

\* for k in range(N): dct[names[k]] = args[k]
RECURSIVE assign_all(_, _, _)
assign_all(d, names, args) ==
    IF names = <<>> THEN d
    ELSE assign_all(DictSet(d, PyStr(Head(names)), Head(args)), Tail(names), Tail(args))

\* names: the text of the call's arguments after the filename, split at commas
save_outcome(rawnames, args) ==
    LET names == [i \in DOMAIN rawnames |-> strip(rawnames[i])]
    IN  IF Len(names) # Len(args) THEN Raised("ValueError", "Bad call to SAVE")
        ELSE save_check(names, args)

save(rawnames, args) ==
    LET names == [i \in DOMAIN rawnames |-> strip(rawnames[i])]
        r == save_outcome(rawnames, args)
        d == assign_all(PyDict(<<>>), names, args)
    IN  /\ file' = IF r.status = "ok" THEN savedict_file(file, d) ELSE file
        /\ last' = Outcome("save", "n/a",
                           Len(names) = Len(args) /\ BadBundle(d),
                           IF r.status = "ok" THEN savedict_check(d.a) ELSE r,
                           Nil, <<>>, <<>>)
        /\ got' = NoGot
        /\ UNCHANGED <<opened, dct, has_dct, nwrites, log, subject>>

(***************************************************************************)
(* Gated Decoder and Named-Tuple Projection.                               *)
(***************************************************************************)
\* _load(filename, trusted): open(filename, 'rb') and unpickle
load_(f, trusted) ==
    IF ~f.exists THEN Raised("FileNotFoundError", "No such file")
    ELSE Unpickle(f.data, trusted)

\* a parameter that defaults to True
Trusted_unless_false(arg) == arg # "False"

\* the value of a "trusted" parameter: FALSE when it is omitted
Trusted(arg) == arg = "True"

\* str(x) of a field name given to namedtuple: the text of a str, and for any
\* other object a repr that is no identifier
StrOf(v) == IF TypeOf(v) = <<"builtins", "str">> THEN v.p ELSE << "<" >>

\* collections.namedtuple('Tuple', names): the error it raises, if any
namedtuple_check(names) ==
    IF \E i \in DOMAIN names : ~isidentifier(names[i])
    THEN Raised("ValueError", "field names must be valid identifiers")
    ELSE IF \E i \in DOMAIN names : iskeyword(names[i])
    THEN Raised("ValueError", "field names cannot be a keyword")
    ELSE IF \E i \in DOMAIN names : names[i][1] = "_"
    THEN Raised("ValueError", "Field names cannot start with an underscore")
    ELSE IF \E i, j \in DOMAIN names : i # j /\ names[i] = names[j]
    THEN Raised("ValueError", "Encountered duplicate field name")
    ELSE Returned

Iterable(v) ==
    TypeOf(v) \in { <<"builtins", "list">>, <<"builtins", "tuple">>,
                    <<"builtins", "set">>, <<"builtins", "frozenset">>,
                    <<"builtins", "dict">>, <<"numpy", "ndarray">>,
                    <<"pandas.core.frame", "DataFrame">>,
                    <<"pandas.core.series", "Series">> }

\* what iterating a value yields (a dict yields its keys)
Iter(v) == IF TypeOf(v) = <<"builtins", "dict">> THEN Keys(v) ELSE Iterate(v)

\* names = dct.get('__names__', list(dct.keys()))
names_of(d) ==
    IF HasKey(d, PyStr(NAMES)) THEN DictGet(d, PyStr(NAMES)) ELSE PyList(Keys(d))

\* _maketuple(dct): the record, as an outcome with its field names and values
maketuple(op, trusted, r) ==
    LET d == r.val
        nv == names_of(d)
        names == [i \in DOMAIN Iter(nv) |-> StrOf(Iter(nv)[i])]
        chk == namedtuple_check(names)
    IN  IF TypeOf(d) # <<"builtins", "dict">>
        THEN Outcome(op, trusted, FALSE,
                     Raise("AttributeError", "no attribute get", NoTag, r.inst),
                     Nil, <<>>, <<>>)
        ELSE IF ~Iterable(nv)
        THEN Outcome(op, trusted, FALSE,
                     Raise("TypeError", "object is not iterable", NoTag, r.inst),
                     Nil, <<>>, <<>>)
        ELSE IF chk.status # "ok"
        THEN Outcome(op, trusted, FALSE, Raise(chk.err, chk.why, NoTag, r.inst),
                     Nil, <<>>, <<>>)
        ELSE IF \E i \in DOMAIN names : ~HasKey(d, PyStr(names[i]))
        THEN Outcome(op, trusted, FALSE, Raise("KeyError", "", NoTag, r.inst),
                     Nil, <<>>, <<>>)
        ELSE Outcome(op, trusted, FALSE, r, Nil, names,
                     [i \in DOMAIN names |-> DictGet(d, PyStr(names[i]))])

load_outcome(f, arg) ==
    LET r == load_(f, Trusted(arg))
    IN  IF r.status # "ok" THEN Outcome("load", arg, FALSE, r, Nil, <<>>, <<>>)
        ELSE maketuple("load", arg, r)

load(arg) ==
    /\ last' = load_outcome(file, arg)
    /\ got' = NoGot
    /\ UNCHANGED <<file, opened, dct, has_dct, nwrites, log, subject>>

loaddict_outcome(f, arg) ==
    LET r == load_(f, Trusted(arg))
        d == r.val
    IN  IF r.status # "ok" THEN Outcome("loaddict", arg, FALSE, r, Nil, <<>>, <<>>)
        ELSE IF ~Iterable(d)
        THEN Outcome("loaddict", arg, FALSE,
                     Raise("TypeError", "argument is not iterable", NoTag, r.inst),
                     Nil, <<>>, <<>>)
        ELSE IF TypeOf(d) = <<"builtins", "dict">> /\ HasKey(d, PyStr(NAMES))
        THEN Outcome("loaddict", arg, FALSE, r, DictDel(d, PyStr(NAMES)), <<>>, <<>>)
        ELSE Outcome("loaddict", arg, FALSE, r, d, <<>>, <<>>)

loaddict(arg) ==
    /\ last' = loaddict_outcome(file, arg)
    /\ got' = NoGot
    /\ UNCHANGED <<file, opened, dct, has_dct, nwrites, log, subject>>

\* mload: names and vals are the variables set in the caller's frame
mload_outcome(f, arg) ==
    LET r == load_(f, Trusted(arg))
        d == r.val
        nv == names_of(d)
        names == [i \in DOMAIN Iter(nv) |-> StrOf(Iter(nv)[i])]
    IN  IF r.status # "ok" THEN Outcome("mload", arg, FALSE, r, Nil, <<>>, <<>>)
        ELSE IF TypeOf(d) # <<"builtins", "dict">>
        THEN Outcome("mload", arg, FALSE,
                     Raise("TypeError", "argument is not iterable", NoTag, r.inst),
                     Nil, <<>>, <<>>)
        ELSE IF ~Iterable(nv)
        THEN Outcome("mload", arg, FALSE,
                     Raise("TypeError", "object is not iterable", NoTag, r.inst),
                     Nil, <<>>, <<>>)
        ELSE IF \E i \in DOMAIN names : ~HasKey(d, PyStr(names[i]))
        THEN Outcome("mload", arg, FALSE, Raise("KeyError", "", NoTag, r.inst),
                     Nil, <<>>, <<>>)
        ELSE Outcome("mload", arg, FALSE, r, Nil, names,
                     [i \in DOMAIN names |-> DictGet(d, PyStr(names[i]))])

mload(arg) ==
    /\ last' = mload_outcome(file, arg)
    /\ got' = NoGot
    /\ UNCHANGED <<file, opened, dct, has_dct, nwrites, log, subject>>

\* fetch(url): the url serves the bytes of the file; SafeLoader(fd).load()
fetch_outcome(f) ==
    LET r == IF ~f.exists THEN Raised("URLError", "not found")
             ELSE Unpickle(f.data, FALSE)
    IN  IF r.status # "ok" THEN Outcome("fetch", "n/a", FALSE, r, Nil, <<>>, <<>>)
        ELSE maketuple("fetch", "n/a", r)

fetch ==
    /\ last' = fetch_outcome(file)
    /\ got' = NoGot
    /\ UNCHANGED <<file, opened, dct, has_dct, nwrites, log, subject>>

\* a key of x[k]: a str or an int
NameKey(chars) == [isstr |-> TRUE, name |-> chars, idx |-> 0]
IndexKey(i) == [isstr |-> FALSE, name |-> <<>>, idx |-> i]

\* Tuple.__getitem__(self, k) on the record with the given names and vals;
\* a method that ends without a return statement returns None
getitem_result(names, vals, k) ==
    LET n == Len(vals) IN
    IF k.isstr
    THEN IF \E i \in DOMAIN names : names[i] = k.name
         THEN [key |-> k, status |-> "ok", err |-> "", val |-> PyNone]
         ELSE [key |-> k, status |-> "raise", err |-> "KeyError", val |-> Nil]
    ELSE IF 0 <= k.idx /\ k.idx < n
         THEN [key |-> k, status |-> "ok", err |-> "", val |-> vals[k.idx + 1]]
         ELSE IF -n <= k.idx /\ k.idx < 0
         THEN [key |-> k, status |-> "ok", err |-> "", val |-> vals[n + k.idx + 1]]
         ELSE [key |-> k, status |-> "raise", err |-> "IndexError", val |-> Nil]

\* x[k], x the record load or fetch has just returned
getitem(k) ==
    /\ last.op \in {"load", "fetch"}
    /\ last.status = "ok"
    /\ got' = getitem_result(last.names, last.vals, k)
    /\ UNCHANGED <<file, opened, dct, has_dct, last, nwrites, log, subject>>

\* The bytes of the file are damaged outside the program: emptied, cut short
\* by one opcode, or replaced by bytes that are no pickle.
Corrupt(how) ==
    /\ file.exists
    /\ file.by # "corrupt"
    /\ file' = [file EXCEPT
                  !.by = "corrupt",
                  !.data = CASE how = "empty" -> <<>>
                             [] how = "cut" -> SubSeq(file.data, 1, Len(file.data) - 1)
                             [] how = "noframe" -> SubSeq(file.data, 2, Len(file.data) - 1)
                             [] OTHER -> << Plain("BAD") >>]
    /\ last' = NoCall
    /\ got' = NoGot
    /\ UNCHANGED <<opened, dct, has_dct, nwrites, log, subject>>

(***************************************************************************)
(* Saver.                                                                  *)
(***************************************************************************)
\* the record of a session kept beside the Saver: the names of its
\* successful save calls in the order of each name's first call, and the
\* value each name was last saved with
EmptyLog == [order |-> <<>>, latest |-> <<>>]

RECURSIVE record_saves(_, _, _)
record_saves(l, names, args) ==
    IF names = <<>> THEN l
    ELSE LET nm == Head(names)
             seen == \E i \in DOMAIN l.order : l.order[i] = nm
             l2 == IF seen
                   THEN [l EXCEPT !.latest =
                            [i \in DOMAIN l.order |->
                                IF l.order[i] = nm THEN Head(args) ELSE l.latest[i]]]
                   ELSE [order |-> Append(l.order, nm),
                         latest |-> Append(l.latest, Head(args))]
         IN  record_saves(l2, Tail(names), Tail(args))

\* Saver.__enter__
Saver_enter ==
    /\ opened' = TRUE
    /\ dct' = PyDict(<<>>)
    /\ has_dct' = TRUE
    /\ nwrites' = 0
    /\ log' = EmptyLog
    /\ last' = Outcome("Saver.__enter__", "n/a", FALSE, Returned, Nil, <<>>, <<>>)
    /\ got' = NoGot
    /\ UNCHANGED <<file, subject>>

\* Saver.save without the test of self.opened
Saver_save_outcome_unguarded(rawnames, args) == save_outcome(rawnames, args)

Saver_save_outcome(rawnames, args) ==
    IF ~opened THEN Raised("ValueError", "Cannot save without opening first")
    ELSE save_outcome(rawnames, args)

\* self.dct after Saver.save
Saver_save_dct(rawnames, args) ==
    LET names == [i \in DOMAIN rawnames |-> strip(rawnames[i])]
    IN  IF Saver_save_outcome(rawnames, args).status = "ok"
        THEN assign_all(dct, names, args)
        ELSE dct

Saver_save(rawnames, args) ==
    LET names == [i \in DOMAIN rawnames |-> strip(rawnames[i])]
        r == Saver_save_outcome(rawnames, args)
    IN  /\ dct' = Saver_save_dct(rawnames, args)
        /\ log' = IF r.status = "ok" THEN record_saves(log, names, args) ELSE log
        /\ last' = Outcome("Saver.save", "n/a", FALSE, r, Nil, <<>>, <<>>)
        /\ got' = NoGot
        /\ UNCHANGED <<file, opened, has_dct, nwrites, subject>>

\* Saver.__exit__: whether it gets as far as calling savedict
Saver_exit_flushes == opened

\* self.opened after Saver.__exit__
Saver_exit_opened ==
    IF Saver_exit_flushes /\ savedict_check(dct.a).status = "ok" THEN FALSE ELSE opened

Saver_exit ==
    LET r == IF ~Saver_exit_flushes THEN Raised("ValueError", "Not opened")
             ELSE savedict_check(dct.a)
    IN  /\ file' = IF Saver_exit_flushes THEN savedict_file(file, dct) ELSE file
        /\ nwrites' = IF Saver_exit_flushes THEN nwrites + 1 ELSE nwrites
        /\ opened' = Saver_exit_opened
        /\ last' = Outcome("Saver.__exit__", "n/a", FALSE, r, Nil, <<>>, <<>>)
        /\ got' = NoGot
        /\ UNCHANGED <<dct, has_dct, log, subject>>

(***************************************************************************)
(* Inputs.                                                                 *)
(***************************************************************************)
SeqsUpTo(S, n) == UNION {[1..m -> S] : m \in 0..n}
Distinct(s) == \A i, j \in DOMAIN s : i # j => s[i] # s[j]

\* a numeric frame column, and an object column holding one cell
FloatColumn == NdArray("float64", <<>>)
ObjectColumn(cell) == NdArray("object", <<cell>>)

\* a list holding an Evil, and a frame with an Evil in a cell
ListEvil == PyList(<<Evil>>)
FrameEvil == DataFrame(<<PyStr(<<"c">>), ObjectColumn(Evil)>>)

\* keys offered to savedict: valid names, a leading underscore, a leading digit
NameChoices == { <<"a">>, <<"b">>, <<"_", "a">>, <<"1", "a">> }
BundleValues == { PyInt("1"), ListEvil }

MkDict(e) ==
    PyDict([i \in 1..(2 * Len(e)) |->
              IF i % 2 = 1 THEN PyStr(e[(i + 1) \div 2][1]) ELSE e[i \div 2][2]])

BundlesOf(names, values, n) ==
    { MkDict(e) : e \in { s \in SeqsUpTo(names \X values, n) :
                            Distinct([i \in DOMAIN s |-> s[i][1]]) } }
Bundles == BundlesOf(NameChoices, BundleValues, MaxKeys)
\* bundles written unchecked: one entry, a frame with an Evil in a cell among them
UncheckedBundles == BundlesOf(NameChoices, BundleValues \cup {FrameEvil}, 1)

\* the argument texts of a call of save, as split at the commas
RawNames == { <<"a">>, <<" ", "b">>, <<"1", "a">> }
\* calls with one name per argument, and calls whose argument text holds a
\* comma more than there are arguments
CallsOf(values) ==
    { c \in SeqsUpTo(RawNames, MaxArgs) \X SeqsUpTo(values, MaxArgs) :
        Len(c[2]) = Len(c[1]) }
    \cup { << <<n1, n2>>, <<v>> >> : n1 \in {<<"a">>}, n2 \in RawNames, v \in values }
SaveCalls == CallsOf({ PyInt("1"), ListEvil })
SaverCalls == CallsOf({ PyInt("1"), PyInt("2"), ListEvil })

TrustedArgs == { "omitted", "False", "True" }

KeysTried ==
    { NameKey(n) : n \in NameChoices } \cup { IndexKey(i) : i \in -(MaxKeys + 1)..MaxKeys }

\* values the classifier and the codec are tried on
Leaves == { PyInt("1"), PyStr(<<"s">>), Evil }
TopOnly ==
    { PyNone, FloatColumn, PyBool("True"), PyFloat("1.5"), PyComplex("1j"),
      NpScalar("int64", "1"), NpScalar("int8", "1"), PyFrozenSet(<<>>),
      Class(<<"test_ppersist", "Evil">>), Class(<<"builtins", "eval">>) }

Wrappers(S, n) ==
    LET ss == SeqsUpTo(S, n) IN
    { PyList(s) : s \in ss } \cup { PyTuple(s) : s \in ss } \cup { PySet(s) : s \in ss }
    \cup { NdArray("object", s) : s \in ss } \cup { Series("object", s) : s \in ss }
    \cup { PyDict(<<k, v>>) : k \in {PyStr(<<"k">>), Evil}, v \in S }
    \cup { DataFrame(<<l, ObjectColumn(c)>>) : l \in {PyStr(<<"c">>)}, c \in S }
    \cup { DataFrame(<<PyStr(<<"c">>), FloatColumn>>), Series("float64", <<PyFloat("1.5")>>) }

DeepWrappers(S) ==
    { PyList(<<v>>) : v \in S } \cup { PyDict(<<PyStr(<<"k">>), v>>) : v \in S }
    \cup { DataFrame(<<PyStr(<<"c">>), ObjectColumn(v)>>) : v \in S }

RECURSIVE Gen(_)
Gen(d) ==
    IF d = 0 THEN Leaves
    ELSE IF d = 1 THEN Leaves \cup Wrappers(Leaves, MaxItems)
    ELSE Gen(d - 1) \cup DeepWrappers(Gen(d - 1))

TestValues == TopOnly \cup Gen(MaxDepth)

\* the bundle {"x": v}
BundleX(v) == PyDict(<<PyStr(<<"x">>), v>>)

(***************************************************************************)
(* Specifications.                                                         *)
(***************************************************************************)
InitCommon ==
    /\ opened = FALSE
    /\ dct = PyDict(<<>>)
    /\ has_dct = FALSE
    /\ last = NoCall
    /\ got = NoGot
    /\ nwrites = 0
    /\ log = EmptyLog

\* files: savedict, save, the loaders, fetch and record access
Init ==
    /\ InitCommon
    /\ file = NoFile
    /\ subject = Nil

Next ==
    \/ \E d \in Bundles : savedict(d)
    \/ \E d \in UncheckedBundles : savedict_ignorewhitelist(d)
    \/ \E c \in SaveCalls : save(c[1], c[2])
    \/ \E arg \in TrustedArgs : load(arg)
    \/ \E arg \in TrustedArgs : loaddict(arg)
    \/ \E arg \in TrustedArgs : mload(arg)
    \/ fetch
    \/ \E k \in KeysTried : getitem(k)
    \/ \E how \in {"empty", "cut", "noframe", "garbage"} : Corrupt(how)

Spec == Init /\ [][Next]_vars

\* one Saver on one file
OldFile == write(MkDict(<< <<(<<"a">>), PyInt("1")>> >>), "savedict")

InitSaver ==
    /\ InitCommon
    /\ file \in {NoFile, OldFile}
    /\ subject = Nil

NextSaver ==
    \/ Saver_enter
    \/ \E c \in SaverCalls : Saver_save(c[1], c[2])
    \/ Saver_exit

SpecSaver == InitSaver /\ [][NextSaver]_vars

\* the classifier and the codec on one value, saved as {"x": subject}
Classify ==
    /\ last' = Outcome("cansave", "n/a", FALSE, Returned,
                       PyBool(IF cansave(subject) THEN "True" ELSE "False"),
                       <<>>, <<>>)
    /\ got' = NoGot
    /\ UNCHANGED <<file, opened, dct, has_dct, nwrites, log, subject>>

InitCodec ==
    /\ InitCommon
    /\ file = NoFile
    /\ subject \in TestValues

NextCodec ==
    \/ Classify
    \/ savedict(BundleX(subject))
    \/ savedict_ignorewhitelist(BundleX(subject))
    \/ \E arg \in {"omitted", "True"} : load(arg)
    \/ loaddict("omitted")
    \/ mload("omitted")

SpecCodec == InitCodec /\ [][NextCodec]_vars

(***************************************************************************)
(* Properties.                                                             *)
(***************************************************************************)
\* the tags a pickle names
TagsIn(ops) == { ops[i].tag : i \in { j \in DOMAIN ops : ops[j].op = "GLOBAL" } }

GatedLoad == last.op \in {"load", "loaddict", "mload"} /\ last.trusted # "True"

\* C1: gated decode is all-or-nothing. Whenever load, loaddict or mload has
\* just run without trusted=True on a saved file that names a tag outside the
\* allow-list, at whatever depth and after however many allowed tags, the call
\* raised UnpicklingError naming a tag of the file that is outside the
\* allow-list, instantiated nothing outside the allow-list, and handed back no
\* dict, no record and no variable.
C1_GatedAllOrNothing ==
    (GatedLoad /\ file.exists /\ ~(TagsIn(file.data) \subseteq allowed)) =>
        /\ last.status = "raise"
        /\ last.err = "UnpicklingError"
        /\ last.tag \in TagsIn(file.data) \ allowed
        /\ \A i \in DOMAIN last.inst : last.inst[i] \in allowed
        /\ last.ret = Nil
        /\ last.names = <<>>
        /\ last.vals = <<>>

\* a rejection two levels down, inside a frame cell, after allowed tags
C1_Witness ==
    /\ GatedLoad
    /\ last.op = "mload"
    /\ last.status = "raise"
    /\ last.tag = <<"test_ppersist", "Evil">>
    /\ Len(last.inst) >= 3
    /\ subject = PyList(<< FrameEvil >>)

\* the value universe the specification supports
SupportedScalars ==
    { <<"builtins", "NoneType">>, <<"builtins", "bool">>, <<"builtins", "int">>,
      <<"builtins", "float">>, <<"builtins", "complex">>, <<"builtins", "str">>,
      <<"numpy", "int32">>, <<"numpy", "int64">>, <<"numpy", "float32">>,
      <<"numpy", "float64">> }

IsStr(v) == TypeOf(v) = <<"builtins", "str">>

RECURSIVE Supported(_)
Supported(v) ==
    LET t == TypeOf(v) IN
    CASE t \in SupportedScalars -> TRUE
      [] t = <<"numpy", "ndarray">> -> v.p[1] # "object"
      [] t \in { <<"builtins", "list">>, <<"builtins", "tuple">>, <<"builtins", "set">> } ->
            \A i \in DOMAIN v.a : Supported(v.a[i])
      [] t = <<"builtins", "dict">> ->
            \A i \in DOMAIN v.a : IF i % 2 = 1 THEN IsStr(v.a[i]) ELSE Supported(v.a[i])
      [] t = <<"pandas.core.series", "Series">> ->
            \A i \in DOMAIN v.a : Supported(v.a[i])
      [] t = <<"pandas.core.frame", "DataFrame">> ->
            \A i \in DOMAIN v.a :
                IF i % 2 = 1 THEN IsStr(v.a[i])
                ELSE \A j \in DOMAIN v.a[i].a : Supported(v.a[i].a[j])
      [] OTHER -> FALSE

\* C2: round trip. For a supported value v, savedict of {"x": v} succeeds and
\* writes only allow-listed tags, and load of that file without trusted=True
\* succeeds and returns a record whose only field x equals v.
C2_RoundTrip ==
    Supported(subject) =>
        /\ last.op = "savedict" =>
              /\ last.status = "ok"
              /\ file.exists
              /\ TagsIn(file.data) \subseteq allowed
        /\ (last.op = "load" /\ last.trusted # "True" /\ file.by = "savedict") =>
              /\ last.status = "ok"
              /\ last.names = << <<"x">> >>
              /\ last.vals = << subject >>

\* a supported frame inside a supported list, saved and loaded gated
C2_Witness ==
    /\ subject = PyList(<< DataFrame(<<PyStr(<<"c">>), ObjectColumn(PyStr(<<"s">>))>>) >>)
    /\ Supported(subject)
    /\ last.op = "load"
    /\ last.trusted = "omitted"
    /\ file.by = "savedict"
    /\ last.status = "ok"
    /\ last.vals = << subject >>

\* C4: classifier soundness. Whenever cansave has returned True, the value
\* and everything nested in it are supported values.
C4_ClassifierSound ==
    (last.op = "cansave" /\ last.ret = PyBool("True")) => Supported(subject)

\* C3: validation before write. A step of savedict or save whose bundle holds
\* a key failing the identifier pattern or a value failing cansave raises
\* ValueError and leaves the file as it was: not created, truncated or changed.
C3_ValidationBeforeWrite ==
    [][ (last'.op \in {"savedict", "save"} /\ last'.argbad) =>
            /\ last'.status = "raise"
            /\ last'.err = "ValueError"
            /\ file' = file ]_vars

\* savedict has refused a bundle while an earlier file is in place
C3_Witness ==
    /\ last.op = "savedict"
    /\ last.argbad
    /\ last.status = "raise"
    /\ file.exists
    /\ file.by = "savedict"
    /\ Len(Keys(file.src)) = 2

\* the bundle a session record stands for
ExpectedBundle(l) ==
    PyDict([i \in 1..(2 * Len(l.order)) |->
              IF i % 2 = 1 THEN PyStr(l.order[(i + 1) \div 2]) ELSE l.latest[i \div 2]])

\* C5: Saver accumulates and flushes exactly once. No step of Saver.save
\* writes the file or invokes savedict; the __exit__ of an open session
\* invokes savedict exactly once, closes the session, and leaves in the file
\* exactly the names of the session's successful save calls, each with its
\* most recently saved value; __exit__ of a closed Saver writes nothing.
C5_FlushOnce ==
    [][ /\ last'.op = "Saver.save" => (file' = file /\ nwrites' = nwrites)
        /\ (last'.op = "Saver.__exit__" /\ opened) =>
              /\ nwrites' = 1
              /\ ~opened'
              /\ file' = write(ExpectedBundle(log), "savedict")
        /\ (last'.op = "Saver.__exit__" /\ ~opened) =>
              (file' = file /\ nwrites' = nwrites) ]_vars

\* a session that saved b, then a, then b again, has been flushed
C5_Witness ==
    /\ last.op = "Saver.__exit__"
    /\ last.status = "ok"
    /\ nwrites = 1
    /\ ~opened
    /\ log.order = << <<"b">>, <<"a">> >>
    /\ log.latest = << PyInt("2"), PyInt("1") >>
    /\ file.src = ExpectedBundle(log)

\* C6: session misuse fails. While the Saver is not open (never entered, or
\* exited), a step of Saver.save or Saver.__exit__ raises ValueError, leaves
\* the accumulated bundle and the file unchanged and the Saver closed; and
\* entering starts from an empty bundle, so nothing of a closed session is
\* used again.
C6_MisuseFails ==
    [][ /\ (~opened /\ last'.op \in {"Saver.save", "Saver.__exit__"}) =>
              /\ last'.status = "raise"
              /\ last'.err = "ValueError"
              /\ dct' = dct
              /\ has_dct' = has_dct
              /\ file' = file
              /\ ~opened'
        /\ last'.op = "Saver.__enter__" => dct' = PyDict(<<>>) ]_vars

\* save was refused on a Saver whose session had been flushed
C6_Witness ==
    /\ ~opened
    /\ has_dct
    /\ nwrites = 1
    /\ Keys(dct) # <<>>
    /\ last.op = "Saver.save"
    /\ last.status = "raise"

HasRecord == last.op \in {"load", "fetch"} /\ last.status = "ok"

\* C7: decoded record access. For the record load or fetch returned, x[i]
\* with 0 <= i < k is the value of field i, x[name] is the value of the field
\* of that name, x[s] for a string that names no field raises KeyError, and
\* an out-of-range integer raises IndexError.
C7_RecordAccess ==
    (HasRecord /\ got.status # "") =>
        LET k == got.key
            n == Len(last.vals)
        IN  /\ (~k.isstr /\ 0 <= k.idx /\ k.idx < n) =>
                  (got.status = "ok" /\ got.val = last.vals[k.idx + 1])
            /\ (~k.isstr /\ (k.idx >= n \/ k.idx < -n)) =>
                  (got.status = "raise" /\ got.err = "IndexError")
            /\ k.isstr =>
                  \A i \in DOMAIN last.names :
                      last.names[i] = k.name =>
                          (got.status = "ok" /\ got.val = last.vals[i])
            /\ (k.isstr /\ \A i \in DOMAIN last.names : last.names[i] # k.name) =>
                  (got.status = "raise" /\ got.err = "KeyError")

\* the kind of error a gated decode raises for a tag outside the allow-list
RejectionKind == Unpickle(dump(BundleX(Evil)), FALSE).err

\* C8: safety rejection is distinguishable from corruption. When a gated
\* decode of damaged bytes fails on their structure (not on a tag), the error
\* is of another kind than the error of a rejection.
C8_RejectionDistinct ==
    (last.op \in {"load", "loaddict", "mload", "fetch"} /\ last.trusted # "True"
       /\ file.by = "corrupt" /\ last.status = "raise" /\ last.tag = NoTag) =>
        last.err # RejectionKind

KeyNames(d) == [i \in DOMAIN Keys(d) |-> Keys(d)[i].p]

\* C9: order preservation. load of a file savedict has written returns a
\* record whose field enumeration is the keys of the bundle, in insertion
\* order.
C9_OrderPreserved ==
    (last.op = "load" /\ file.exists /\ file.by = "savedict") =>
        /\ last.status = "ok"
        /\ last.names = KeyNames(file.src)

\* C10: the gate is bypassed only on explicit request for a local file. A tag
\* outside the allow-list is instantiated only by load, loaddict or mload
\* called with trusted=True; with trusted omitted or False, and in fetch,
\* every instantiated tag is in the allow-list.
C10_GateBypassExplicit ==
    \A i \in DOMAIN last.inst :
        last.inst[i] \notin allowed =>
            (last.op \in {"load", "loaddict", "mload"} /\ last.trusted = "True")

\* load with trusted=True has instantiated a tag outside the allow-list from
\* a file that load with trusted omitted and fetch both reject
C10_Witness ==
    /\ last.op = "load"
    /\ last.trusted = "True"
    /\ last.status = "ok"
    /\ \E i \in DOMAIN last.inst : last.inst[i] \notin allowed
    /\ load_outcome(file, "omitted").status = "raise"
    /\ fetch_outcome(file).status = "raise"
    /\ fetch_outcome(file).tag = <<"test_ppersist", "Evil">>

====
